---- MODULE Spec2Model ----
(***************************************************************************)
(* Model of the Palette Generator Figma plugin (src/src/code.ts).          *)
(*                                                                         *)
(* Numbers.  The plugin computes with IEEE doubles.  The model computes    *)
(* with exact rationals <<n, d>> in lowest terms (d > 0), so two numbers   *)
(* are equal exactly when their pairs are equal.  Rounding of doubles is   *)
(* not modelled.                                                           *)
(***************************************************************************)
EXTENDS Integers, Sequences, FiniteSets, TLC

(***************************************************************************)
(* Exact rational arithmetic                                               *)
(***************************************************************************)
RECURSIVE GCD(_, _)
GCD(a, b) == IF b = 0 THEN a ELSE GCD(b, a % b)

IAbs(x) == IF x < 0 THEN -x ELSE x

\* n/d in lowest terms, d # 0
Q(n, d) ==
  LET sn == IF d < 0 THEN -n ELSE n
      sd == IAbs(d)
      g  == GCD(IAbs(sn), sd)
  IN  <<sn \div g, sd \div g>>

Zero == Q(0, 1)
One  == Q(1, 1)

RAdd(a, b) ==
  LET g == GCD(a[2], b[2])
  IN  Q(a[1] * (b[2] \div g) + b[1] * (a[2] \div g), (a[2] \div g) * b[2])

RNeg(a) == <<-a[1], a[2]>>
RSub(a, b) == RAdd(a, RNeg(b))

RMul(a, b) ==
  LET g1 == GCD(IAbs(a[1]), b[2])
      g2 == GCD(IAbs(b[1]), a[2])
  IN  Q((a[1] \div g1) * (b[1] \div g2), (a[2] \div g2) * (b[2] \div g1))

\* a / b for b # 0
RDiv(a, b) == RMul(a, Q(b[2], b[1]))

RLt(a, b) == a[1] * b[2] < b[1] * a[2]
RLe(a, b) == a[1] * b[2] <= b[1] * a[2]
RGt(a, b) == RLt(b, a)
RGe(a, b) == RLe(b, a)

\* Math.min, Math.max, Math.abs
RMin(a, b) == IF RLe(a, b) THEN a ELSE b
RMax(a, b) == IF RGe(a, b) THEN a ELSE b
RAbs(a) == <<IAbs(a[1]), a[2]>>

\* truncation toward zero, as an integer
RTrunc(a) == IF a[1] >= 0 THEN a[1] \div a[2] ELSE -((-a[1]) \div a[2])

\* the % operator of JavaScript on numbers: the result has the dividend's sign
RMod(a, b) == RSub(a, RMul(b, Q(RTrunc(RDiv(a, b)), 1)))

\* an integer as a rational
N(i) == Q(i, 1)

(***************************************************************************)
(* RGB values and the colour-space transforms                              *)
(***************************************************************************)
RGB(r, g, b) == [r |-> r, g |-> g, b |-> b]

clamp(value, min, max) == RMax(min, RMin(max, value))

\* rgbToHsl once max, min, l and d = max - min are computed
rgbToHslFrom(r, g, b, max, min, l, d) ==
  IF max = min
  THEN [h |-> Zero, s |-> Zero, l |-> l]
  ELSE [h |-> RMul(RDiv(IF max = r
                        THEN RAdd(RDiv(RSub(g, b), d), IF RLt(g, b) THEN N(6) ELSE Zero)
                        ELSE IF max = g
                             THEN RAdd(RDiv(RSub(b, r), d), N(2))
                             ELSE RAdd(RDiv(RSub(r, g), d), N(4)),
                        N(6)),
                   N(360)),
        s |-> IF RGt(l, Q(1, 2))
              THEN RDiv(d, RSub(RSub(N(2), max), min))
              ELSE RDiv(d, RAdd(max, min)),
        l |-> l]

\* rgbToHsl once max and min are computed
rgbToHslOf(r, g, b, max, min) ==
  rgbToHslFrom(r, g, b, max, min, RDiv(RAdd(max, min), N(2)), RSub(max, min))

rgbToHsl(r, g, b) == rgbToHslOf(r, g, b, RMax(r, RMax(g, b)), RMin(r, RMin(g, b)))

\* hslToRgbSextant with the last sextant treated like the fifth
hslToRgbSextantNoMagenta(h, c, x) ==
  IF RGe(h, Zero) /\ RLt(h, N(60))             THEN <<c, x, Zero>>
  ELSE IF RGe(h, N(60)) /\ RLt(h, N(120))  THEN <<x, c, Zero>>
  ELSE IF RGe(h, N(120)) /\ RLt(h, N(180)) THEN <<Zero, c, x>>
  ELSE IF RGe(h, N(180)) /\ RLt(h, N(240)) THEN <<Zero, x, c>>
  ELSE <<x, Zero, c>>

\* the sextant chain of hslToRgb: (r, g, b) before m is added
hslToRgbSextant(h, c, x) ==
  IF RGe(h, Zero) /\ RLt(h, N(60))             THEN <<c, x, Zero>>
  ELSE IF RGe(h, N(60)) /\ RLt(h, N(120))  THEN <<x, c, Zero>>
  ELSE IF RGe(h, N(120)) /\ RLt(h, N(180)) THEN <<Zero, c, x>>
  ELSE IF RGe(h, N(180)) /\ RLt(h, N(240)) THEN <<Zero, x, c>>
  ELSE IF RGe(h, N(240)) /\ RLt(h, N(300)) THEN <<x, Zero, c>>
  ELSE <<c, Zero, x>>

\* the return statement of hslToRgb
hslToRgbReturn(rgb1, m) == RGB(RAdd(rgb1[1], m), RAdd(rgb1[2], m), RAdd(rgb1[3], m))

\* hslToRgb once the chroma c is computed
hslToRgbFrom(h, l, c) ==
  hslToRgbReturn(hslToRgbSextant(h, c, RMul(c, RSub(One, RAbs(RSub(RMod(RDiv(h, N(60)), N(2)), One))))),
                 RSub(l, RDiv(c, N(2))))

hslToRgb(h, s, l) == hslToRgbFrom(h, l, RMul(RSub(One, RAbs(RSub(RMul(N(2), l), One))), s))

hslOf(color) == rgbToHsl(color.r, color.g, color.b)

lightenColor(color, amount) ==
  RGB(RMin(One, RAdd(color.r, RMul(RSub(One, color.r), amount))),
      RMin(One, RAdd(color.g, RMul(RSub(One, color.g), amount))),
      RMin(One, RAdd(color.b, RMul(RSub(One, color.b), amount))))

darkenColor(color, amount) ==
  RGB(RMax(Zero, RMul(color.r, RSub(One, amount))),
      RMax(Zero, RMul(color.g, RSub(One, amount))),
      RMax(Zero, RMul(color.b, RSub(One, amount))))

RECURSIVE Flatten(_)
Flatten(seqs) == IF seqs = <<>> THEN <<>> ELSE Head(seqs) \o Flatten(Tail(seqs))

(***************************************************************************)
(* Scale Generator                                                         *)
(***************************************************************************)
\* the nine entries written by the 9-step branch and by the fallback branch
nineSteps(color) ==
  ("100" :> lightenColor(color, Q(8, 10))) @@
  ("200" :> lightenColor(color, Q(6, 10))) @@
  ("300" :> lightenColor(color, Q(4, 10))) @@
  ("400" :> lightenColor(color, Q(2, 10))) @@
  ("500" :> color) @@
  ("600" :> darkenColor(color, Q(2, 10))) @@
  ("700" :> darkenColor(color, Q(4, 10))) @@
  ("800" :> darkenColor(color, Q(6, 10))) @@
  ("900" :> darkenColor(color, Q(8, 10)))

\* colorScale with the step count ignored
colorScaleAlwaysNine(color, scaleSteps) == nineSteps(color)

\* colorScale whose last branch writes the five-step entries
colorScaleFallbackFive(color, scaleSteps) ==
  IF scaleSteps = 9 THEN nineSteps(color)
  ELSE IF scaleSteps = 13
  THEN nineSteps(color) @@
       ("000" :> lightenColor(color, Q(95, 100))) @@ ("050" :> lightenColor(color, Q(9, 10))) @@
       ("950" :> darkenColor(color, Q(9, 10))) @@ ("999" :> darkenColor(color, Q(95, 100)))
  ELSE ("100" :> lightenColor(color, Q(8, 10))) @@
       ("300" :> lightenColor(color, Q(4, 10))) @@
       ("500" :> color) @@
       ("700" :> darkenColor(color, Q(4, 10))) @@
       ("900" :> darkenColor(color, Q(8, 10)))

\* the body of the map callback of generateColorScales: the scale of one color
colorScale(color, scaleSteps) ==
  IF scaleSteps = 5
  THEN ("100" :> lightenColor(color, Q(8, 10))) @@
       ("300" :> lightenColor(color, Q(4, 10))) @@
       ("500" :> color) @@
       ("700" :> darkenColor(color, Q(4, 10))) @@
       ("900" :> darkenColor(color, Q(8, 10)))
  ELSE IF scaleSteps = 9
  THEN nineSteps(color)
  ELSE IF scaleSteps = 13
  THEN ("000" :> lightenColor(color, Q(95, 100))) @@
       ("050" :> lightenColor(color, Q(9, 10))) @@
       ("100" :> lightenColor(color, Q(8, 10))) @@
       ("200" :> lightenColor(color, Q(6, 10))) @@
       ("300" :> lightenColor(color, Q(4, 10))) @@
       ("400" :> lightenColor(color, Q(2, 10))) @@
       ("500" :> color) @@
       ("600" :> darkenColor(color, Q(2, 10))) @@
       ("700" :> darkenColor(color, Q(4, 10))) @@
       ("800" :> darkenColor(color, Q(6, 10))) @@
       ("900" :> darkenColor(color, Q(8, 10))) @@
       ("950" :> darkenColor(color, Q(9, 10))) @@
       ("999" :> darkenColor(color, Q(95, 100)))
  ELSE nineSteps(color)

\* generateColorScales with the base step clamped into [0,1] like the other steps
generateColorScalesClampedBase(colors, scaleSteps) ==
  [i \in 1..Len(colors) |->
     [colorScale(colors[i], scaleSteps) EXCEPT !["500"] = darkenColor(lightenColor(colors[i], Zero), Zero)]]

generateColorScales(colors, scaleSteps) ==
  [i \in 1..Len(colors) |-> colorScale(colors[i], scaleSteps)]

(***************************************************************************)
(* Explicit path: harmonies, modes, accessibility                          *)
(***************************************************************************)
\* the HarmonyColor[] built from the primary color; harmonyTypes is the set
\* of strings of the settings array (only Array.includes is applied to it)
\* hslToRgb((primaryHsl.h + deg) % 360 / 360, primaryHsl.s, primaryHsl.l)
harmonyColorAt(primaryHsl, deg) ==
  hslToRgb(RDiv(RMod(RAdd(primaryHsl.h, N(deg)), N(360)), N(360)), primaryHsl.s, primaryHsl.l)

\* generateHarmonyColorsFromPrimary once primaryHsl is computed
harmonyColorsFromHsl(primaryColor, primaryHsl, harmonyTypes) ==
  (IF "analogous" \in harmonyTypes
   THEN << [name |-> "Analogous",
            colors |-> << hslToRgb(RDiv(RMod(RAdd(RSub(primaryHsl.h, N(30)), N(360)), N(360)), N(360)),
                                   primaryHsl.s, primaryHsl.l),
                          primaryColor, harmonyColorAt(primaryHsl, 30) >>] >>
   ELSE <<>>) \o
  (IF "complementary" \in harmonyTypes
   THEN << [name |-> "Complementary", colors |-> << harmonyColorAt(primaryHsl, 180) >>] >>
   ELSE <<>>) \o
  (IF "triadic" \in harmonyTypes
   THEN << [name |-> "Triadic",
            colors |-> << primaryColor, harmonyColorAt(primaryHsl, 120), harmonyColorAt(primaryHsl, 240) >>] >>
   ELSE <<>>) \o
  (IF "splitComplementary" \in harmonyTypes
   THEN << [name |-> "Split-Complementary",
            colors |-> << primaryColor, harmonyColorAt(primaryHsl, 150), harmonyColorAt(primaryHsl, 210) >>] >>
   ELSE <<>>)

generateHarmonyColorsFromPrimary(primaryColor, harmonyTypes) ==
  harmonyColorsFromHsl(primaryColor, hslOf(primaryColor), harmonyTypes)

\* the body of the map callback of generateModeColors, hsl being computed
modeColorFromHsl(hsl, mode) ==
  IF mode = "light"
  THEN hslToRgb(hsl.h, RMul(hsl.s, Q(9, 10)), RMin(RMul(hsl.l, Q(12, 10)), Q(9, 10)))
  ELSE hslToRgb(hsl.h, RMin(RMul(hsl.s, Q(11, 10)), One), RMul(hsl.l, Q(8, 10)))

generateModeColors(colors, mode) ==
  [i \in 1..Len(colors) |-> modeColorFromHsl(hslOf(colors[i]), mode)]

\* String.prototype.toLowerCase on the names generateHarmonyColorsFromPrimary writes
toLowerCase(name) ==
  CASE name = "Analogous"           -> "analogous"
    [] name = "Complementary"       -> "complementary"
    [] name = "Triadic"             -> "triadic"
    [] name = "Split-Complementary" -> "split-complementary"
    [] OTHER                        -> name

RECURSIVE convertFrom(_, _)
convertFrom(result, harmonies) ==
  IF harmonies = <<>> THEN result
  ELSE LET harmony == Head(harmonies)
           lower   == toLowerCase(harmony.name)
           next    == IF lower = "analogous" THEN [result EXCEPT !.analogous = harmony.colors]
                      ELSE IF lower = "complementary" THEN [result EXCEPT !.complementary = harmony.colors]
                      ELSE IF lower = "triadic" THEN [result EXCEPT !.triadic = harmony.colors]
                      ELSE IF lower = "split-complementary" THEN [result EXCEPT !.splitComplementary = harmony.colors]
                      ELSE result
       IN  convertFrom(next, Tail(harmonies))

convertToHarmonies(harmonies) ==
  convertFrom([analogous |-> <<>>, complementary |-> <<>>, triadic |-> <<>>, splitComplementary |-> <<>>],
              harmonies)

generateSimpleMonotoneScale ==
  << RGB(One, One, One), RGB(Q(9, 10), Q(9, 10), Q(9, 10)), RGB(Q(7, 10), Q(7, 10), Q(7, 10)),
     RGB(Q(5, 10), Q(5, 10), Q(5, 10)), RGB(Q(3, 10), Q(3, 10), Q(3, 10)), RGB(Zero, Zero, Zero) >>

generateAccessibleColors(colors) == colors

\* the object generateColorPaletteFromSelectedColors returns, lightMode and
\* darkMode being computed
selectedColorsPalette(selectedColors, settings, lightMode, darkMode) ==
  [primary |-> selectedColors.primary, secondary |-> selectedColors.secondary,
   tertiary |-> selectedColors.tertiary,
   scales |-> generateColorScales(<< selectedColors.primary, selectedColors.secondary, selectedColors.tertiary >>,
                                  settings.scaleSteps),
   harmonies |-> convertToHarmonies(generateHarmonyColorsFromPrimary(selectedColors.primary, settings.harmonyTypes)),
   lightMode |-> lightMode, darkMode |-> darkMode,
   accessibleLight |-> IF settings.accessibility THEN generateAccessibleColors(lightMode) ELSE lightMode,
   accessibleDark  |-> IF settings.accessibility THEN generateAccessibleColors(darkMode) ELSE darkMode,
   monotoneScale |-> generateSimpleMonotoneScale]

generateColorPaletteFromSelectedColors(selectedColors, settings) ==
  selectedColorsPalette(selectedColors, settings,
    generateModeColors(<< selectedColors.primary, selectedColors.secondary, selectedColors.tertiary >>, "light"),
    generateModeColors(<< selectedColors.primary, selectedColors.secondary, selectedColors.tertiary >>, "dark"))

(***************************************************************************)
(* Sampled path: seed selection, family, harmonies, modes                  *)
(***************************************************************************)
\* saturationScore + lightnessScore + saturationBonus of calculateColorVibrancy
vibrancyFromHsl(hsl) ==
  RAdd(RAdd(RMul(hsl.s, N(3)), RMul(RAbs(RSub(hsl.l, Q(1, 2))), Q(15, 10))),
       IF RGt(hsl.s, Q(8, 10)) THEN One ELSE Zero)

calculateColorVibrancy(color) == vibrancyFromHsl(hslOf(color))

\* boostFromHsl with the lightness left as it is
boostFromHslKeepLightness(hsl) == hslToRgb(hsl.h, RMin(One, RMul(hsl.s, Q(15, 10))), hsl.l)

\* boostedSaturation and boostedLightness of boostColorVibrancy, converted back
boostFromHsl(hsl) ==
  hslToRgb(hsl.h,
           RMin(One, RMul(hsl.s, Q(15, 10))),
           IF RGt(hsl.l, Q(7, 10)) THEN Q(6, 10)
           ELSE IF RLt(hsl.l, Q(3, 10)) THEN Q(4, 10) ELSE hsl.l)

boostColorVibrancy(color) == boostFromHsl(hslOf(color))

\* brighterOf replacing the best so far on an equal score too
brighterOfLatest(brightest, color) ==
  IF RGe(calculateColorVibrancy(color), calculateColorVibrancy(brightest)) THEN color ELSE brightest

\* one iteration of the loop of selectBrightestColor: a color replaces the
\* best so far only on a strictly higher score
brighterOf(brightest, color) ==
  IF RGt(calculateColorVibrancy(color), calculateColorVibrancy(brightest)) THEN color ELSE brightest

\* the loop of selectBrightestColor: best so far after the first k colors
RECURSIVE bestOf(_, _)
bestOf(colors, k) ==
  IF k = 1 THEN colors[1]
  ELSE brighterOf(bestOf(colors, k - 1), colors[k])

selectBrightestColor(colors) ==
  IF Len(colors) = 0 THEN RGB(Q(1, 2), Q(1, 2), Q(1, 2))
  ELSE boostColorVibrancy(bestOf(colors, Len(colors)))

\* colorFamilyFrom with the tertiary at +30 degrees
colorFamilyFromPlusThirty(h, baseS, baseL) ==
  << hslToRgb(h, baseS, baseL),
     hslToRgb(RMod(RAdd(h, N(180)), N(360)), RMax(Q(8, 10), baseS), clamp(baseL, Q(48, 100), Q(60, 100))),
     hslToRgb(RMod(RAdd(h, N(30)), N(360)), RMax(Q(8, 10), baseS), clamp(baseL, Q(48, 100), Q(60, 100))) >>

\* normalizedPrimary, secondary and tertiary of buildColorFamilyFromPrimary,
\* the hue h, baseS and baseL being computed
colorFamilyFrom(h, baseS, baseL) ==
  << hslToRgb(h, baseS, baseL),
     hslToRgb(RMod(RAdd(h, N(180)), N(360)), RMax(Q(8, 10), baseS), clamp(baseL, Q(48, 100), Q(60, 100))),
     hslToRgb(RMod(RAdd(h, N(20)), N(360)), RMax(Q(8, 10), baseS), clamp(baseL, Q(48, 100), Q(60, 100))) >>

\* colorFamilyFromHsl with the seed's own saturation and lightness as the base
colorFamilyFromHslNoFloor(hsl) == colorFamilyFrom(hsl.h, hsl.s, hsl.l)

\* buildColorFamilyFromPrimary once hsl is computed
colorFamilyFromHsl(hsl) ==
  colorFamilyFrom(hsl.h, RMax(Q(85, 100), RMin(One, hsl.s)), clamp(hsl.l, Q(48, 100), Q(60, 100)))

buildColorFamilyFromPrimary(primary) == colorFamilyFromHsl(hslOf(primary))

\* rotatedFromHsl without the "% 360"
rotatedFromHslNoWrap(hsl, deg) == hslToRgb(RAdd(hsl.h, N(deg)), hsl.s, hsl.l)

\* hslToRgb((hsl.h + deg) % 360, hsl.s, hsl.l)
rotatedFromHsl(hsl, deg) == hslToRgb(RMod(RAdd(hsl.h, N(deg)), N(360)), hsl.s, hsl.l)

\* one color of a harmony: the base color turned by deg degrees
rotated(color, deg) == rotatedFromHsl(hslOf(color), deg)

generateAnalogousColors(color) == << rotated(color, 30), rotated(color, 60), rotated(color, 90) >>
generateComplementaryColors(color) == << rotated(color, 180) >>
generateTriadicColors(color) == << rotated(color, 120), rotated(color, 240) >>
generateSplitComplementaryColors(color) == << rotated(color, 150), rotated(color, 210) >>

generateHarmonies(colors) ==
  [analogous |-> generateAnalogousColors(colors[1]),
   complementary |-> generateComplementaryColors(colors[1]),
   triadic |-> generateTriadicColors(colors[1]),
   splitComplementary |-> generateSplitComplementaryColors(colors[1])]

\* generateModeSpecificPalettes with a lightened color in place of the base
generateModeSpecificPalettesNoBase(colors) ==
  [light |-> Flatten([i \in 1..Len(colors) |->
                << lightenColor(colors[i], Q(9, 10)), lightenColor(colors[i], Q(7, 10)),
                   lightenColor(colors[i], Q(5, 10)), lightenColor(colors[i], Q(3, 10)),
                   darkenColor(colors[i], Q(1, 10)) >>]),
   dark  |-> Flatten([i \in 1..Len(colors) |->
                << lightenColor(colors[i], Q(8, 10)), lightenColor(colors[i], Q(6, 10)),
                   lightenColor(colors[i], Q(4, 10)),
                   darkenColor(colors[i], Q(3, 10)), darkenColor(colors[i], Q(6, 10)) >>])]

generateModeSpecificPalettes(colors) ==
  [light |-> Flatten([i \in 1..Len(colors) |->
                << lightenColor(colors[i], Q(9, 10)), lightenColor(colors[i], Q(7, 10)),
                   lightenColor(colors[i], Q(5, 10)), lightenColor(colors[i], Q(3, 10)),
                   darkenColor(colors[i], Q(1, 10)) >>]),
   dark  |-> Flatten([i \in 1..Len(colors) |->
                << lightenColor(colors[i], Q(8, 10)), lightenColor(colors[i], Q(6, 10)),
                   colors[i],
                   darkenColor(colors[i], Q(3, 10)), darkenColor(colors[i], Q(6, 10)) >>])]

generateAccessiblePalettes(colors) ==
  [light |-> Flatten([i \in 1..Len(colors) |->
                << lightenColor(colors[i], Q(95, 100)), lightenColor(colors[i], Q(8, 10)),
                   lightenColor(colors[i], Q(6, 10)), lightenColor(colors[i], Q(4, 10)),
                   darkenColor(colors[i], Q(2, 10)) >>]),
   dark  |-> Flatten([i \in 1..Len(colors) |->
                << lightenColor(colors[i], Q(9, 10)), lightenColor(colors[i], Q(7, 10)),
                   lightenColor(colors[i], Q(5, 10)), lightenColor(colors[i], Q(3, 10)),
                   darkenColor(colors[i], Q(1, 10)) >>])]

fallbackColors ==
  << RGB(Q(2, 10), Q(4, 10), Q(8, 10)), RGB(Q(8, 10), Q(2, 10), Q(4, 10)), RGB(Q(4, 10), Q(8, 10), Q(2, 10)) >>

(***************************************************************************)
(* Values of the state machine                                             *)
(***************************************************************************)
\* a field that a JavaScript object does not have
Undefined == [undefined |-> TRUE]

\* no palette has been built
NoPalette == [none |-> TRUE]

\* a color as the UI sends it, channels on the 0-255 scale
C255(r, g, b) == [r |-> r, g |-> g, b |-> b]

\* extractWeightedPixels: the pixels of every usable image, in image order.
\* An image is usable when its first fill is an image fill whose hash the
\* host resolves; its pixels are the list extractPixelsFromImage returns.
RECURSIVE extractWeightedPixels(_)
extractWeightedPixels(imgs) ==
  IF imgs = <<>> THEN <<>>
  ELSE (IF Head(imgs).usable THEN Head(imgs).pixels ELSE <<>>) \o extractWeightedPixels(Tail(imgs))

\* generateColorPalette.  The try block throws only where it dereferences
\* its arguments: with settings undefined, settings.scaleSteps raises a
\* TypeError after the family is built, and the catch block returns the
\* palette of the fallback colors.
\* the PaletteData object both blocks of generateColorPalette return
paletteData(primaryColors, scales, modePalettes, accessiblePalettes) ==
  [primary |-> primaryColors[1], secondary |-> primaryColors[2], tertiary |-> primaryColors[3],
   scales |-> scales, harmonies |-> generateHarmonies(primaryColors),
   lightMode |-> modePalettes.light, darkMode |-> modePalettes.dark,
   accessibleLight |-> accessiblePalettes.light, accessibleDark |-> accessiblePalettes.dark,
   monotoneScale |-> generateSimpleMonotoneScale]

\* generateColorPalette once the color family is chosen; scaleSteps is the
\* argument generateColorScales receives
paletteFromFamily(primaryColors, scaleSteps) ==
  paletteData(primaryColors, generateColorScales(primaryColors, scaleSteps),
              generateModeSpecificPalettes(primaryColors), generateAccessiblePalettes(primaryColors))

\* generateColorPalette without its catch block: the promise is rejected
generateColorPaletteNoCatch(imgs, settings) ==
  IF settings # Undefined
  THEN paletteFromFamily(buildColorFamilyFromPrimary(selectBrightestColor(extractWeightedPixels(imgs))),
                         settings.scaleSteps)
  ELSE NoPalette

generateColorPalette(imgs, settings) ==
  IF settings # Undefined
  THEN paletteFromFamily(buildColorFamilyFromPrimary(selectBrightestColor(extractWeightedPixels(imgs))),
                         settings.scaleSteps)
  ELSE paletteFromFamily(fallbackColors, 9)

(***************************************************************************)
(* Inputs of the model                                                     *)
(***************************************************************************)
MaxImages == 2
MaxPixels == 1

\* colors the UI can send as the primary: pure red, a blue whose rotated hues
\* wrap past 360, mid gray (achromatic), and one with channels outside 0..255
PrimaryChoices   == { C255(255, 0, 0), C255(51, 102, 204), C255(128, 128, 128), C255(300, -45, 45) }
SecondaryChoices == { C255(0, 204, 102) }
TertiaryChoices  == { C255(204, 153, 0) }

SelectedColorsChoices ==
  [primary : PrimaryChoices \cup {Undefined},
   secondary : SecondaryChoices \cup {Undefined},
   tertiary : TertiaryChoices \cup {Undefined}]

HarmonyKeys == { "analogous", "complementary", "triadic", "splitComplementary" }

\* the array generatePaletteFromSelectedColors uses when no settings are given
defaultHarmonyTypes == { "analogous", "complementary", "triadic", "split-complementary" }

defaultSettings == [scaleSteps |-> 9, harmonyTypes |-> defaultHarmonyTypes, accessibility |-> TRUE]

ScaleStepChoices == { 5, 9, 13, 7 }

\* harmonyTypes arrays a request can carry: none, one key, two keys, all four
\* keys of ColorHarmonies, and the array of the default settings
HarmonyTypeChoices ==
  { {}, {"complementary"}, {"triadic"}, {"analogous", "splitComplementary"},
    HarmonyKeys, defaultHarmonyTypes }

SettingsChoices ==
  [scaleSteps : ScaleStepChoices,
   harmonyTypes : HarmonyTypeChoices,
   accessibility : BOOLEAN]

\* settings given to generateColorPalette, which reads only scaleSteps: every
\* step count, with nothing else requested and with everything requested
SampledSettingsChoices ==
  { st \in SettingsChoices :
      \/ st.harmonyTypes = {} /\ ~st.accessibility
      \/ st.harmonyTypes = HarmonyKeys /\ st.accessibility }

Messages ==
  [type : {"generate-palette"},
   selectedColors : SelectedColorsChoices \cup {Undefined},
   settings : SettingsChoices \cup {Undefined}]
  \cup
  [type : {"generate-palette-from-selected"},
   selectedColors : SelectedColorsChoices \cup {Undefined},
   settings : {Undefined}]

\* pixels an image can yield, channels already on the 0-1 scale
\* ({0.3375, 0.1625, 0.1625} and {0.26, 0.14, 0.14}: samples of hue 0 for
\* the hash sums 2050 and 2400)
PixelPool == { RGB(Q(27, 80), Q(13, 80), Q(13, 80)), RGB(Q(13, 50), Q(7, 50), Q(7, 50)) }

RECURSIVE SeqsUpTo(_, _)
SeqsUpTo(S, n) ==
  IF n = 0 THEN { <<>> }
  ELSE SeqsUpTo(S, n - 1) \cup { Append(q, x) : q \in { t \in SeqsUpTo(S, n - 1) : Len(t) = n - 1 }, x \in S }

ImageChoices ==
  { [usable |-> FALSE, pixels |-> <<>>] } \cup
  { [usable |-> TRUE, pixels |-> px] : px \in SeqsUpTo(PixelPool, MaxPixels) }

ImageLists == SeqsUpTo(ImageChoices, MaxImages)

(***************************************************************************)
(* State                                                                   *)
(***************************************************************************)
VARIABLES
  pc,             \* position of the request: "idle", "frames", "post", "done"
  msg,            \* the message figma.ui.onmessage is handling
  path,           \* "none", "explicit" (generateColorPaletteFromSelectedColors) or "sampled" (generateColorPalette)
  images,         \* the images given to generateColorPalette
  finalSettings,  \* the settings the palette is generated and rendered with
  palette,        \* the PaletteData built for the request
  canvas,         \* what createPaletteFrames has put on the page
  ui,             \* messages sent with figma.ui.postMessage, in order
  notified,       \* figma.notify calls, in order: TRUE for { error: true }
  arg,            \* input of the function under study (function specifications)
  ret,            \* its result
  requests        \* the generate requests in flight at once (concurrent specification)

vars == << pc, msg, path, images, finalSettings, palette, canvas, ui, notified, arg, ret, requests >>

emptyCanvas ==
  [mainFrame |-> FALSE, scaleFrames |-> <<>>, harmonyFrames |-> <<>>,
   lightSwatches |-> <<>>, darkSwatches |-> <<>>, monotone |-> FALSE]

NoArg == [none |-> TRUE]

Init ==
  /\ pc = "idle"
  /\ msg = Undefined
  /\ path = "none"
  /\ images = <<>>
  /\ finalSettings = Undefined
  /\ palette = NoPalette
  /\ canvas = emptyCanvas
  /\ ui = <<>>
  /\ notified = <<>>
  /\ requests = <<>>
  /\ arg = NoArg
  /\ ret = NoArg

(***************************************************************************)
(* figma.ui.onmessage and generatePaletteFromSelectedColors                *)
(***************************************************************************)
\* the conversion followed by the normalisation of the sampled path: the
\* primary is replaced by the normalized primary of its color family
convertedColorsNormalized(selectedColors) ==
  [primary   |-> buildColorFamilyFromPrimary(
                   RGB(Q(selectedColors.primary.r, 255), Q(selectedColors.primary.g, 255),
                       Q(selectedColors.primary.b, 255)))[1],
   secondary |-> RGB(Q(selectedColors.secondary.r, 255), Q(selectedColors.secondary.g, 255), Q(selectedColors.secondary.b, 255)),
   tertiary  |-> RGB(Q(selectedColors.tertiary.r, 255), Q(selectedColors.tertiary.g, 255), Q(selectedColors.tertiary.b, 255))]

\* the conversion from the 0-255 scale to the 0-1 scale
convertedColors(selectedColors) ==
  [primary   |-> RGB(Q(selectedColors.primary.r, 255), Q(selectedColors.primary.g, 255), Q(selectedColors.primary.b, 255)),
   secondary |-> RGB(Q(selectedColors.secondary.r, 255), Q(selectedColors.secondary.g, 255), Q(selectedColors.secondary.b, 255)),
   tertiary  |-> RGB(Q(selectedColors.tertiary.r, 255), Q(selectedColors.tertiary.g, 255), Q(selectedColors.tertiary.b, 255))]

\* reading .r of a missing color raises a TypeError
conversionThrows(selectedColors) ==
  \/ selectedColors.primary = Undefined
  \/ selectedColors.secondary = Undefined
  \/ selectedColors.tertiary = Undefined

\* the handler asking for selectedColors only, for both message types
acceptedWithoutSettings(m) == m.selectedColors # Undefined

\* the handler passes the message on to generatePaletteFromSelectedColors
accepted(m) ==
  IF m.type = "generate-palette"
  THEN m.selectedColors # Undefined /\ m.settings # Undefined
  ELSE m.selectedColors # Undefined

\* the settings argument the handler passes
passedSettings(m) == IF m.type = "generate-palette" THEN m.settings ELSE Undefined

\* A generate message arrives.  The handler runs without suspending up to
\* the first await of createPaletteFrames (font loading): it rejects the
\* message, or fails on the conversion, or builds the palette.
OnMessage(m) ==
  /\ pc = "idle"
  /\ msg' = m
  /\ UNCHANGED << images, canvas, arg, ret, requests >>
  /\ IF ~accepted(m)
     THEN /\ notified' = Append(notified, TRUE)
          /\ ui' = Append(ui, [type |-> "error", message |-> "Selected colors are required"])
          /\ pc' = "done"
          /\ UNCHANGED << path, finalSettings, palette >>
     ELSE IF conversionThrows(m.selectedColors)
     THEN /\ ui' = Append(ui, [type |-> "error", message |-> "TypeError"])
          /\ notified' = Append(notified, TRUE)
          /\ pc' = "done"
          /\ UNCHANGED << path, finalSettings, palette >>
     ELSE LET settings == IF passedSettings(m) # Undefined THEN passedSettings(m) ELSE defaultSettings
          IN  /\ finalSettings' = settings
              /\ palette' = generateColorPaletteFromSelectedColors(convertedColors(m.selectedColors), settings)
              /\ path' = "explicit"
              /\ pc' = "frames"
              /\ UNCHANGED << ui, notified >>

(***************************************************************************)
(* createPaletteFrames                                                     *)
(***************************************************************************)
RenderStages == << "font", "main", "scales", "harmonies", "modes", "monotone" >>

\* Object.keys(scale).sort(): the labels of a scale in ascending string order
LabelOrder == << "000", "050", "100", "200", "300", "400", "500", "600", "700", "800", "900", "950", "999" >>
sortedKeys(scale) == SelectSeq(LabelOrder, LAMBDA k : k \in DOMAIN scale)

\* createColorScales: one frame per scale name, with one swatch per label
createColorScales(pal) ==
  [i \in 1..(IF Len(pal.scales) < 3 THEN Len(pal.scales) ELSE 3) |-> sortedKeys(pal.scales[i])]

\* createHarmonyPalettes: a frame for every harmony whose key the settings list
allHarmonyTypes(pal) ==
  << [name |-> "Analogous", key |-> "analogous", colors |-> pal.harmonies.analogous],
     [name |-> "Complementary", key |-> "complementary", colors |-> pal.harmonies.complementary],
     [name |-> "Triadic", key |-> "triadic", colors |-> pal.harmonies.triadic],
     [name |-> "Split-Complementary", key |-> "splitComplementary", colors |-> pal.harmonies.splitComplementary] >>

createHarmonyPalettes(pal, settings) ==
  SelectSeq(allHarmonyTypes(pal), LAMBDA harmony : harmony.key \in settings.harmonyTypes)

\* createModeSpecificFrames: at most 15 swatches of the arrays the settings select
firstFifteen(colors) == SubSeq(colors, 1, IF Len(colors) < 15 THEN Len(colors) ELSE 15)

lightColors(pal, settings) == firstFifteen(IF settings.accessibility THEN pal.accessibleLight ELSE pal.lightMode)
darkColors(pal, settings)  == firstFifteen(IF settings.accessibility THEN pal.accessibleDark ELSE pal.darkMode)

\* position of a stage in RenderStages
stageIndex(stage) == CHOOSE i \in 1..Len(RenderStages) : RenderStages[i] = stage

\* createPaletteFrames runs its stages in order.  Every stage calls the host
\* (figma.loadFontAsync, figma.createFrame, ...), which can throw; failAt is
\* the stage whose first host call throws, "none" when no call throws.  The
\* catch block of createPaletteFrames notifies and returns normally.
CreatePaletteFrames(failAt) ==
  /\ pc = "frames"
  /\ LET reached(stage) == failAt = "none" \/ stageIndex(stage) < stageIndex(failAt)
     IN  canvas' = [mainFrame     |-> reached("main"),
                    scaleFrames   |-> IF reached("scales") THEN createColorScales(palette) ELSE <<>>,
                    harmonyFrames |-> IF reached("harmonies") THEN createHarmonyPalettes(palette, finalSettings) ELSE <<>>,
                    lightSwatches |-> IF reached("modes") THEN lightColors(palette, finalSettings) ELSE <<>>,
                    darkSwatches  |-> IF reached("modes") THEN darkColors(palette, finalSettings) ELSE <<>>,
                    monotone      |-> reached("monotone")]
  /\ notified' = IF failAt = "none" THEN notified ELSE Append(notified, TRUE)
  /\ pc' = "post"
  /\ UNCHANGED << msg, path, images, finalSettings, palette, ui, arg, ret, requests >>

\* generatePaletteFromSelectedColors resumes after createPaletteFrames
PostGenerated ==
  /\ pc = "post"
  /\ ui' = Append(ui, [type |-> "palette-generated", message |-> ""])
  /\ notified' = Append(notified, FALSE)
  /\ pc' = "done"
  /\ UNCHANGED << msg, path, images, finalSettings, palette, canvas, arg, ret, requests >>

(***************************************************************************)
(* generateColorPalette as an entry point of its own                       *)
(***************************************************************************)
GenerateColorPalette(imgs, settings) ==
  /\ pc = "idle"
  /\ images' = imgs
  /\ finalSettings' = settings
  /\ palette' = generateColorPalette(imgs, settings)
  /\ path' = "sampled"
  /\ pc' = "done"
  /\ UNCHANGED << msg, canvas, ui, notified, arg, ret, requests >>

Next ==
  \/ \E m \in Messages : OnMessage(m)
  \/ \E failAt \in { RenderStages[i] : i \in 1..Len(RenderStages) } \cup { "none" } : CreatePaletteFrames(failAt)
  \/ PostGenerated
  \/ \E imgs \in ImageLists, settings \in SampledSettingsChoices \cup {Undefined} : GenerateColorPalette(imgs, settings)

Spec == Init /\ [][Next]_vars

\* the promises the handler awaits are settled by the host, so a handler
\* that can take a step takes it
SpecFair == Spec /\ WF_vars(Next)

(***************************************************************************)
(* Concurrent specification: several generate requests in flight           *)
(*                                                                         *)
(* figma.ui.onmessage is an async function: a message can be handled while *)
(* an earlier call is suspended at an await.  createPaletteFrames awaits   *)
(* figma.loadFontAsync twice (the font loop, the verification) and then    *)
(* createColorScales, createHarmonyPalettes, createModeSpecificFrames and  *)
(* createMonotoneScale; generatePaletteFromSelectedColors awaits           *)
(* createPaletteFrames.  Every await is a point where another message may  *)
(* be handled.  Every call has its own parameters and locals               *)
(* (selectedColors, finalSettings, palette, mainFrame): requests[i] holds  *)
(* those of the i-th call.  The UI channel and the notifications are       *)
(* shared.                                                                 *)
(***************************************************************************)
MaxRequests == 2

RequestChoices ==
  { [type |-> "generate-palette",
     selectedColors |-> [primary |-> C255(255, 0, 0), secondary |-> C255(0, 204, 102), tertiary |-> C255(204, 153, 0)],
     settings |-> [scaleSteps |-> 5, harmonyTypes |-> {"complementary"}, accessibility |-> FALSE]],
    [type |-> "generate-palette-from-selected",
     selectedColors |-> [primary |-> C255(51, 102, 204), secondary |-> C255(0, 204, 102), tertiary |-> C255(204, 153, 0)],
     settings |-> Undefined],
    [type |-> "generate-palette",
     selectedColors |-> Undefined,
     settings |-> Undefined] }

\* the parameters and locals of a call suspended at the first font load.
\* at: where the call is suspended; inFlight: the number of calls started
\* when the call last ran
startedRequest(m, settings) ==
  [msg |-> m, settings |-> settings,
   palette |-> generateColorPaletteFromSelectedColors(convertedColors(m.selectedColors), settings),
   at |-> "font", frame |-> emptyCanvas, inFlight |-> 0]

\* a call that ended before it built a palette
endedRequest(m) ==
  [msg |-> m, settings |-> Undefined, palette |-> NoPalette, at |-> "done", frame |-> emptyCanvas, inFlight |-> 0]

\* a message arrives: the handler runs up to the first await of createPaletteFrames
OnMessageConcurrent(m) ==
  /\ Len(requests) < MaxRequests
  /\ IF ~accepted(m)
     THEN /\ notified' = Append(notified, TRUE)
          /\ ui' = Append(ui, [type |-> "error", message |-> "Selected colors are required"])
          /\ requests' = Append(requests, endedRequest(m))
     ELSE IF conversionThrows(m.selectedColors)
     THEN /\ ui' = Append(ui, [type |-> "error", message |-> "TypeError"])
          /\ notified' = Append(notified, TRUE)
          /\ requests' = Append(requests, endedRequest(m))
     ELSE /\ requests' = Append(requests,
                 startedRequest(m, IF passedSettings(m) # Undefined THEN passedSettings(m) ELSE defaultSettings))
          /\ UNCHANGED << ui, notified >>
  /\ UNCHANGED << pc, msg, path, images, finalSettings, palette, canvas, arg, ret >>

\* the awaits of a call in order; "post" is the await of createPaletteFrames
\* in generatePaletteFromSelectedColors
AwaitOrder == << "font", "verify", "scales", "harmonies", "modes", "monotone", "post" >>

nextAwait(at) == AwaitOrder[(CHOOSE k \in 1..Len(AwaitOrder) : AwaitOrder[k] = at) + 1]

\* the mainFrame of a call after the code that follows the await at: the
\* main frame is created after the verification, the frames of a stage are
\* in place when the await of the stage returns
frameAfter(frame, at, pal, settings) ==
  CASE at = "font"      -> frame
    [] at = "verify"    -> [frame EXCEPT !.mainFrame = TRUE]
    [] at = "scales"    -> [frame EXCEPT !.scaleFrames = createColorScales(pal)]
    [] at = "harmonies" -> [frame EXCEPT !.harmonyFrames = createHarmonyPalettes(pal, settings)]
    [] at = "modes"     -> [frame EXCEPT !.lightSwatches = lightColors(pal, settings),
                                         !.darkSwatches = darkColors(pal, settings)]
    [] at = "monotone"  -> [frame EXCEPT !.monotone = TRUE]

\* the palette and settings createPaletteFrames reads in the i-th call, were
\* they kept in one place shared by all calls: those of the latest call that
\* built a palette
renderSourceShared(reqs, i) ==
  reqs[CHOOSE j \in 1..Len(reqs) :
         /\ reqs[j].palette # NoPalette
         /\ \A k \in (j + 1)..Len(reqs) : reqs[k].palette = NoPalette]

\* the palette and settings createPaletteFrames reads in the i-th call: its
\* own parameters
renderSource(reqs, i) == reqs[i]

\* the i-th call resumes in createPaletteFrames from the await it is
\* suspended at.  When the awaited call succeeded (ok) it runs to the next
\* await; when it threw, the catch block notifies and createPaletteFrames
\* returns.
ResumeFrames(i, ok) ==
  /\ i \in 1..Len(requests)
  /\ requests[i].at \notin {"post", "done"}
  /\ IF ok
     THEN /\ requests' =
               [requests EXCEPT
                  ![i].frame = frameAfter(@, requests[i].at, renderSource(requests, i).palette,
                                          renderSource(requests, i).settings),
                  ![i].inFlight = Len(requests),
                  ![i].at = nextAwait(@)]
          /\ UNCHANGED notified
     ELSE /\ requests' = [requests EXCEPT ![i].at = "post", ![i].inFlight = Len(requests)]
          /\ notified' = Append(notified, TRUE)
  /\ UNCHANGED << pc, msg, path, images, finalSettings, palette, canvas, ui, arg, ret >>

\* the i-th call resumes in generatePaletteFromSelectedColors
ResumePost(i) ==
  /\ i \in 1..Len(requests)
  /\ requests[i].at = "post"
  /\ ui' = Append(ui, [type |-> "palette-generated", message |-> ""])
  /\ notified' = Append(notified, FALSE)
  /\ requests' = [requests EXCEPT ![i].at = "done"]
  /\ UNCHANGED << pc, msg, path, images, finalSettings, palette, canvas, arg, ret >>

NextConcurrent ==
  \/ \E m \in RequestChoices : OnMessageConcurrent(m)
  \/ \E i \in 1..MaxRequests, ok \in BOOLEAN : ResumeFrames(i, ok)
  \/ \E i \in 1..MaxRequests : ResumePost(i)

SpecConcurrent == Init /\ [][NextConcurrent]_vars

(***************************************************************************)
(* Function specification: generateColorScales                             *)
(***************************************************************************)
MaxColors == 2

ScaleColorChoices ==
  { RGB(One, Zero, Zero), RGB(Q(1, 5), Q(2, 5), Q(4, 5)), RGB(Q(1, 2), Q(1, 2), Q(1, 2)),
    RGB(Q(300, 255), Zero, Q(-45, 255)) }

ScaleStepArgs == { 5, 9, 13, 0, 7, 12 }

InitScales ==
  /\ pc = "idle"
  /\ msg = Undefined
  /\ path = "none"
  /\ images = <<>>
  /\ finalSettings = Undefined
  /\ palette = NoPalette
  /\ canvas = emptyCanvas
  /\ ui = <<>>
  /\ notified = <<>>
  /\ requests = <<>>
  /\ arg \in [colors : SeqsUpTo(ScaleColorChoices, MaxColors), scaleSteps : ScaleStepArgs]
  /\ ret = NoArg

CallGenerateColorScales ==
  /\ ret = NoArg
  /\ ret' = [scales |-> generateColorScales(arg.colors, arg.scaleSteps)]
  /\ UNCHANGED << pc, msg, path, images, finalSettings, palette, canvas, ui, notified, arg, requests >>

NextScales == CallGenerateColorScales

SpecScales == InitScales /\ [][NextScales]_vars

(***************************************************************************)
(* Function specification: the color transforms and the color family       *)
(***************************************************************************)
\* the channels of the argument colors are the multiples of 1/ChannelSteps
ChannelSteps == 4

SeedChannels == { Q(k, ChannelSteps) : k \in 0..ChannelSteps }

\* the grid, and a dark and a light color of saturation 1/3
SeedColors ==
  { RGB(r, g, b) : r \in SeedChannels, g \in SeedChannels, b \in SeedChannels } \cup
  { RGB(Q(1, 5), Q(1, 10), Q(1, 10)), RGB(Q(9, 10), Q(4, 5), Q(4, 5)) }

InitColor ==
  /\ pc = "idle"
  /\ msg = Undefined
  /\ path = "none"
  /\ images = <<>>
  /\ finalSettings = Undefined
  /\ palette = NoPalette
  /\ canvas = emptyCanvas
  /\ ui = <<>>
  /\ notified = <<>>
  /\ requests = <<>>
  /\ arg \in [color : SeedColors]
  /\ ret = NoArg

CallBuildColorFamilyFromPrimary ==
  /\ ret = NoArg
  /\ ret' = [fn |-> "buildColorFamilyFromPrimary", family |-> buildColorFamilyFromPrimary(arg.color)]
  /\ UNCHANGED << pc, msg, path, images, finalSettings, palette, canvas, ui, notified, arg, requests >>

\* rgbToHsl(color.r, color.g, color.b), then hslToRgb on its result
CallRgbToHsl ==
  /\ ret = NoArg
  /\ ret' = [fn |-> "rgbToHsl", hsl |-> hslOf(arg.color),
             rgb |-> hslToRgb(hslOf(arg.color).h, hslOf(arg.color).s, hslOf(arg.color).l)]
  /\ UNCHANGED << pc, msg, path, images, finalSettings, palette, canvas, ui, notified, arg, requests >>

CallBoostColorVibrancy ==
  /\ ret = NoArg
  /\ ret' = [fn |-> "boostColorVibrancy", color |-> boostColorVibrancy(arg.color)]
  /\ UNCHANGED << pc, msg, path, images, finalSettings, palette, canvas, ui, notified, arg, requests >>

\* generateHarmonies(primaryColors) as generateColorPalette calls it, on the
\* family built from the seed
CallGenerateHarmonies ==
  /\ ret = NoArg
  /\ ret' = [fn |-> "generateHarmonies", colors |-> buildColorFamilyFromPrimary(arg.color),
             harmonies |-> generateHarmonies(buildColorFamilyFromPrimary(arg.color))]
  /\ UNCHANGED << pc, msg, path, images, finalSettings, palette, canvas, ui, notified, arg, requests >>

\* generateModeSpecificPalettes(primaryColors) as generateColorPalette calls it
CallGenerateModeSpecificPalettes ==
  /\ ret = NoArg
  /\ ret' = [fn |-> "generateModeSpecificPalettes", colors |-> buildColorFamilyFromPrimary(arg.color),
             light |-> generateModeSpecificPalettes(buildColorFamilyFromPrimary(arg.color)).light,
             dark |-> generateModeSpecificPalettes(buildColorFamilyFromPrimary(arg.color)).dark]
  /\ UNCHANGED << pc, msg, path, images, finalSettings, palette, canvas, ui, notified, arg, requests >>

\* generateAccessiblePalettes(primaryColors) as generateColorPalette calls it
CallGenerateAccessiblePalettes ==
  /\ ret = NoArg
  /\ ret' = [fn |-> "generateAccessiblePalettes", colors |-> buildColorFamilyFromPrimary(arg.color),
             light |-> generateAccessiblePalettes(buildColorFamilyFromPrimary(arg.color)).light,
             dark |-> generateAccessiblePalettes(buildColorFamilyFromPrimary(arg.color)).dark]
  /\ UNCHANGED << pc, msg, path, images, finalSettings, palette, canvas, ui, notified, arg, requests >>

NextColor ==
  \/ CallGenerateModeSpecificPalettes
  \/ CallGenerateAccessiblePalettes
  \/ CallGenerateHarmonies
  \/ CallBuildColorFamilyFromPrimary
  \/ CallRgbToHsl
  \/ CallBoostColorVibrancy

SpecColor == InitColor /\ [][NextColor]_vars

(***************************************************************************)
(* Function specification: selectBestPrimaryCandidates                     *)
(*                                                                         *)
(* The colors of the array are objects: every array of RGB the plugin      *)
(* builds holds a fresh object per element (hslToRgb returns a new object).*)
(* An object is identified by its index in the argument array;             *)
(* candidates.includes(s.color) compares objects, not channel values.      *)
(***************************************************************************)
\* totalScore of the map callback: vibrancyScore + mudPenalty + huePreference
totalScoreFromHsl(hsl) ==
  RAdd(RAdd(RMul(hsl.s, RSub(One, RMul(RAbs(RSub(hsl.l, Q(1, 2))), N(2)))),
            IF RLt(hsl.s, Q(3, 10)) /\ RGt(hsl.l, Q(3, 10)) /\ RLt(hsl.l, Q(7, 10)) THEN Q(-1, 2) ELSE Zero),
       IF (RGe(hsl.h, Zero) /\ RLe(hsl.h, N(60))) \/ (RGe(hsl.h, N(300)) /\ RLe(hsl.h, N(360)))
       THEN Q(1, 10) ELSE Zero)

\* the object the map callback returns for the color at index i
scoredColor(colors, i) ==
  [index |-> i, color |-> colors[i], score |-> totalScoreFromHsl(hslOf(colors[i])), hue |-> hslOf(colors[i]).h]

\* scoredColors.sort((a, b) => b.score - a.score), a stable sort: scored is
\* put behind every entry whose score is not lower
insertByScore(sorted, scored) ==
  SelectSeq(sorted, LAMBDA e : RGe(e.score, scored.score)) \o << scored >> \o
  SelectSeq(sorted, LAMBDA e : RLt(e.score, scored.score))

RECURSIVE scoredColorsSorted(_, _)
scoredColorsSorted(colors, n) ==
  IF n = 0 THEN <<>> ELSE insertByScore(scoredColorsSorted(colors, n - 1), scoredColor(colors, n))

\* hueTooClose against the whole hue spacing
hueTooCloseFullSpacing(hue, usedHue, count) ==
  RLt(RMin(RAbs(RSub(hue, usedHue)), RSub(N(360), RAbs(RSub(hue, usedHue)))), Q(360, count))

\* the callback of usedHueRanges.some
hueTooClose(hue, usedHue, count) ==
  RLt(RMin(RAbs(RSub(hue, usedHue)), RSub(N(360), RAbs(RSub(hue, usedHue)))),
      RMul(Q(360, count), Q(7, 10)))

tooClose(scored, candidates, count) ==
  \E k \in 1..Len(candidates) : hueTooClose(scored.hue, candidates[k].hue, count)

\* the for loop over scoredColors from position k on; candidates holds the
\* scored objects pushed so far (color into candidates, hue into usedHueRanges)
RECURSIVE selectDiverse(_, _, _, _)
selectDiverse(sorted, k, candidates, count) ==
  IF k > Len(sorted) \/ Len(candidates) >= count THEN candidates
  ELSE IF ~tooClose(sorted[k], candidates, count) \/ Len(candidates) < 2
       THEN selectDiverse(sorted, k + 1, Append(candidates, sorted[k]), count)
       ELSE selectDiverse(sorted, k + 1, candidates, count)

\* scoredColors.filter(s => !candidates.includes(s.color))
remainingScored(sorted, candidates) ==
  SelectSeq(sorted, LAMBDA e : \A k \in 1..Len(candidates) : candidates[k].index # e.index)

\* fillCandidates without the while loop
fillCandidatesNever(sorted, candidates, count) == candidates

\* the while loop that fills up with the highest scoring remaining colors
RECURSIVE fillCandidates(_, _, _)
fillCandidates(sorted, candidates, count) ==
  IF Len(candidates) < count /\ Len(candidates) < Len(sorted)
  THEN IF Len(remainingScored(sorted, candidates)) > 0
       THEN fillCandidates(sorted, Append(candidates, remainingScored(sorted, candidates)[1]), count)
       ELSE candidates
  ELSE candidates

\* the indices (in the argument array) of the colors the for loop pushed
greedyPass(colors, count) ==
  [k \in 1..Len(selectDiverse(scoredColorsSorted(colors, Len(colors)), 1, <<>>, count)) |->
     selectDiverse(scoredColorsSorted(colors, Len(colors)), 1, <<>>, count)[k].index]

\* selectBestPrimaryCandidates once scoredColors is sorted
candidatesFromSorted(sorted, count) == fillCandidates(sorted, selectDiverse(sorted, 1, <<>>, count), count)

\* the returned array: for every candidate its color and the index of the
\* object in the argument array
selectBestPrimaryCandidates(colors, count) ==
  [k \in 1..Len(candidatesFromSorted(scoredColorsSorted(colors, Len(colors)), count)) |->
     [index |-> candidatesFromSorted(scoredColorsSorted(colors, Len(colors)), count)[k].index,
      color |-> candidatesFromSorted(scoredColorsSorted(colors, Len(colors)), count)[k].color]]

MaxCandidates == 4
MaxCount == 3

\* vibrant red, an orange 15 degrees from it, a blue, a muddy gray-green
CandidateColors ==
  { RGB(One, Zero, Zero), RGB(One, Q(1, 4), Zero), RGB(Q(1, 5), Q(2, 5), Q(4, 5)), RGB(Q(2, 5), Q(1, 2), Q(2, 5)) }

InitCandidates ==
  /\ pc = "idle"
  /\ msg = Undefined
  /\ path = "none"
  /\ images = <<>>
  /\ finalSettings = Undefined
  /\ palette = NoPalette
  /\ canvas = emptyCanvas
  /\ ui = <<>>
  /\ notified = <<>>
  /\ requests = <<>>
  /\ arg \in [colors : SeqsUpTo(CandidateColors, MaxCandidates), count : 1..MaxCount]
  /\ ret = NoArg

CallSelectBestPrimaryCandidates ==
  /\ ret = NoArg
  /\ ret' = [fn |-> "selectBestPrimaryCandidates",
             candidates |-> selectBestPrimaryCandidates(arg.colors, arg.count),
             greedy |-> greedyPass(arg.colors, arg.count)]
  /\ UNCHANGED << pc, msg, path, images, finalSettings, palette, canvas, ui, notified, arg, requests >>

CallSelectBrightestColor ==
  /\ ret = NoArg
  /\ ret' = [fn |-> "selectBrightestColor", color |-> selectBrightestColor(arg.colors)]
  /\ UNCHANGED << pc, msg, path, images, finalSettings, palette, canvas, ui, notified, arg, requests >>

NextCandidates ==
  \/ CallSelectBestPrimaryCandidates
  \/ CallSelectBrightestColor

SpecCandidates == InitCandidates /\ [][NextCandidates]_vars

(***************************************************************************)
(* Specification of the 'extract-image-colors' request                     *)
(*                                                                         *)
(* arg.selection is figma.currentPage.selection when the message arrives.  *)
(***************************************************************************)
maxImages == 10

MaxSelection == 12

\* a rectangle whose image fill the host resolves, and a rectangle with a
\* solid fill only
NodeChoices ==
  { [type |-> "RECTANGLE", fills |-> << "IMAGE" >>, imageLoads |-> TRUE],
    [type |-> "RECTANGLE", fills |-> << "SOLID" >>, imageLoads |-> FALSE] }

\* the checks of the validation loop: a rectangle with fills, one of them an
\* image fill whose image figma.getImageByHash returns
isValidImage(node) ==
  /\ node.type = "RECTANGLE"
  /\ Len(node.fills) > 0
  /\ \E k \in 1..Len(node.fills) : node.fills[k] = "IMAGE"
  /\ node.imageLoads

\* selectedNodes without a slice
imagesToProcessAll(selectedNodes) == selectedNodes

\* selectedNodes.slice(0, maxImages)
imagesToProcess(selectedNodes) ==
  SubSeq(selectedNodes, 1, IF Len(selectedNodes) < maxImages THEN Len(selectedNodes) ELSE maxImages)

validImages(selectedNodes) == SelectSeq(imagesToProcess(selectedNodes), isValidImage)

\* the last valid image instead of the first
lastImage(valid) == valid[Len(valid)]

\* validImages[0]
firstImage(valid) == valid[1]

\* what getBytesAsync resolves with: the bytes of the image with this hash
imageBytesOf(imageHash) == << "bytes", imageHash >>

\* the selected nodes; the image of the k-th node has hash k
selectionOf(nodes) ==
  [k \in 1..Len(nodes) |->
     [type |-> nodes[k].type, fills |-> nodes[k].fills, imageLoads |-> nodes[k].imageLoads,
      imageHash |-> k]]

InitExtract ==
  /\ pc = "idle"
  /\ msg = Undefined
  /\ path = "none"
  /\ images = <<>>
  /\ finalSettings = Undefined
  /\ palette = NoPalette
  /\ canvas = emptyCanvas
  /\ ui = <<>>
  /\ notified = <<>>
  /\ requests = <<>>
  /\ arg \in { [selection |-> selectionOf(nodes)] : nodes \in SeqsUpTo(NodeChoices, MaxSelection) }
  /\ ret = NoArg

\* extractImageColors, run to its end; bytesOk: firstImageObj.getBytesAsync()
\* resolves (it is awaited only when there is a valid image)
ExtractImageColors(bytesOk) ==
  /\ ret = NoArg
  /\ ret' = [fn |-> "extractImageColors"]
  /\ msg' = [type |-> "extract-image-colors"]
  /\ IF Len(arg.selection) = 0
     THEN /\ notified' = Append(notified, TRUE)
          /\ ui' = Append(ui, [type |-> "error", message |-> "No images selected"])
     ELSE IF Len(validImages(arg.selection)) = 0
     THEN /\ notified' = (IF Len(arg.selection) > maxImages THEN Append(notified, FALSE) ELSE notified)
                            \o << TRUE >>
          /\ ui' = Append(ui, [type |-> "error", message |-> "No valid images found"])
     ELSE /\ notified' = (IF Len(arg.selection) > maxImages THEN Append(notified, FALSE) ELSE notified)
                            \o (IF bytesOk THEN <<>> ELSE << TRUE >>)
          /\ ui' = ui \o << [type |-> "multi-image-selected",
                              imageCount |-> Len(validImages(arg.selection)),
                              totalSelected |-> Len(arg.selection)],
                             IF bytesOk
                             THEN [type |-> "image-bytes-received",
                                   imageBytes |-> imageBytesOf(firstImage(validImages(arg.selection)).imageHash),
                                   imageHash |-> firstImage(validImages(arg.selection)).imageHash,
                                   multiImage |-> TRUE,
                                   imageCount |-> Len(validImages(arg.selection))]
                             ELSE [type |-> "error", message |-> "Failed to extract image colors"] >>
  /\ UNCHANGED << pc, path, images, finalSettings, palette, canvas, arg, requests >>

NextExtract == \E bytesOk \in BOOLEAN : ExtractImageColors(bytesOk)

SpecExtract == InitExtract /\ [][NextExtract]_vars

(***************************************************************************)
(* Specification of extractPixelsFromImage                                 *)
(*                                                                         *)
(* The image hash enters only through hashSum, the sum of its character    *)
(* codes.  random1, random2 and random3 are the fractions the loop derives *)
(* from the seed of a sample (random3 is below 0.001); a sample is given   *)
(* by these three values, drawn here from a small grid.                    *)
(***************************************************************************)
hueBase(hashSum) == hashSum % 360

\* the hueCenter of the four entries of colorFamilies
colorFamilies(hashSum) ==
  << hueBase(hashSum), (hueBase(hashSum) + 120) % 360, (hueBase(hashSum) + 240) % 360,
     (hueBase(hashSum) + 60) % 360 >>

\* the loop over colorFamilies: the first family whose accumulated weight
\* (0.4, 0.7, 0.9, 1) reaches random1, the first family when none does
selectedFamily(hashSum, random1) ==
  IF RLe(random1, Q(4, 10)) THEN colorFamilies(hashSum)[1]
  ELSE IF RLe(random1, Q(7, 10)) THEN colorFamilies(hashSum)[2]
  ELSE IF RLe(random1, Q(9, 10)) THEN colorFamilies(hashSum)[3]
  ELSE IF RLe(random1, One) THEN colorFamilies(hashSum)[4]
  ELSE colorFamilies(hashSum)[1]

\* (selectedFamily.hueCenter + (random2 - 0.5) * hueSpread + 360) % 360
sampleHue(hueCenter, random2) ==
  RMod(RAdd(RAdd(N(hueCenter), RMul(RSub(random2, Q(1, 2)), N(40))), N(360)), N(360))

\* max(0.3, min(0.95, saturationBias * 0.7 + random3 * 0.5))
sampleSaturation(hashSum, random3) ==
  RMax(Q(3, 10), RMin(Q(95, 100), RAdd(RMul(RMod(Q(hashSum, 100), One), Q(7, 10)), RMul(random3, Q(1, 2)))))

\* max(0.2, min(0.8, lightnessBias * 0.6 + random2 * 0.4))
sampleLightness(hashSum, random2) ==
  RMax(Q(2, 10), RMin(Q(8, 10), RAdd(RMul(RMod(Q(hashSum, 200), One), Q(6, 10)), RMul(random2, Q(4, 10)))))

\* hslToRgb(hue / 360, saturation, lightness) of one sample
samplePixel(hashSum, rnd) ==
  hslToRgb(RDiv(sampleHue(selectedFamily(hashSum, rnd.random1), rnd.random2), N(360)),
           sampleSaturation(hashSum, rnd.random3),
           sampleLightness(hashSum, rnd.random2))

\* the pixels pushed for the samples, in order
extractPixelsFromImage(hashSum, samples) ==
  [k \in 1..Len(samples) |-> samplePixel(hashSum, samples[k])]

MaxHashSteps == 7
MaxSamples == 2

\* sums of the character codes of 40-character hexadecimal hashes
HashSumChoices == { 1950 + 50 * k : k \in 0..MaxHashSteps }

\* one value of random1 for each family, random2 over the hue spread,
\* random3 at the low end of its range
RandomChoices ==
  [random1 : { Q(1, 5), Q(1, 2), Q(4, 5), Q(19, 20) },
   random2 : { Zero, Q(1, 4), Q(1, 2), Q(3, 4) },
   random3 : { Zero }]

InitPixels ==
  /\ pc = "idle"
  /\ msg = Undefined
  /\ path = "none"
  /\ images = <<>>
  /\ finalSettings = Undefined
  /\ palette = NoPalette
  /\ canvas = emptyCanvas
  /\ ui = <<>>
  /\ notified = <<>>
  /\ requests = <<>>
  /\ arg \in [hashSum : HashSumChoices, samples : SeqsUpTo(RandomChoices, MaxSamples)]
  /\ ret = NoArg

\* the returned pixels, and the hue computed for each sample
CallExtractPixelsFromImage ==
  /\ ret = NoArg
  /\ ret' = [fn |-> "extractPixelsFromImage",
             pixels |-> extractPixelsFromImage(arg.hashSum, arg.samples),
             hues |-> [k \in 1..Len(arg.samples) |->
                         sampleHue(selectedFamily(arg.hashSum, arg.samples[k].random1),
                                   arg.samples[k].random2)]]
  /\ UNCHANGED << pc, msg, path, images, finalSettings, palette, canvas, ui, notified, arg, requests >>

NextPixels == CallExtractPixelsFromImage

SpecPixels == InitPixels /\ [][NextPixels]_vars

(***************************************************************************)
(* Properties                                                              *)
(***************************************************************************)
hasPalette == palette # NoPalette

family(pal) == << pal.primary, pal.secondary, pal.tertiary >>

\* C1: on the explicit path every requested harmony holds exactly the colors
\* of the primary's saturation and lightness at the rotated hues:
\* complementary one color at +180, triadic two at +120 and +240,
\* splitComplementary two at +150 and +210 (mod 360).
C1_ExplicitHarmonyHues ==
  (path = "explicit") =>
    /\ ("complementary" \in finalSettings.harmonyTypes =>
          palette.harmonies.complementary = << rotated(palette.primary, 180) >>)
    /\ ("triadic" \in finalSettings.harmonyTypes =>
          palette.harmonies.triadic = << rotated(palette.primary, 120), rotated(palette.primary, 240) >>)
    /\ ("splitComplementary" \in finalSettings.harmonyTypes =>
          palette.harmonies.splitComplementary = << rotated(palette.primary, 150), rotated(palette.primary, 210) >>)

\* the five light and five dark variants of one family color
lightVariantsOf(color) == generateModeSpecificPalettes(<< color >>).light
darkVariantsOf(color)  == generateModeSpecificPalettes(<< color >>).dark

\* C2: in every PaletteData, on both paths, lightMode and darkMode hold 15
\* entries, five variants per family color, grouped by family color in the
\* order primary, secondary, tertiary.
C2_ModeArraysHoldFifteen ==
  hasPalette =>
    /\ Len(palette.lightMode) = 15
    /\ Len(palette.darkMode) = 15
    /\ \A k \in 0..2 :
         /\ SubSeq(palette.lightMode, 5 * k + 1, 5 * k + 5) = lightVariantsOf(family(palette)[k + 1])
         /\ SubSeq(palette.darkMode, 5 * k + 1, 5 * k + 5) = darkVariantsOf(family(palette)[k + 1])

allStagesDone == pc \in {"post", "done"} /\ canvas.monotone

renderedKeys == { canvas.harmonyFrames[i].key : i \in 1..Len(canvas.harmonyFrames) }

\* C3: a request without settings is generated with scaleSteps 9,
\* accessibility on and all four harmonies, so the four harmony fields are
\* non-empty and, once the frames are created, all four are rendered.
C3_DefaultsGiveAllFourHarmonies ==
  (path = "explicit" /\ msg.type = "generate-palette-from-selected") =>
    /\ finalSettings.scaleSteps = 9
    /\ finalSettings.accessibility
    /\ \A key \in HarmonyKeys : palette.harmonies[key] # <<>>
    /\ (allStagesDone => renderedKeys = HarmonyKeys)

\* C4: the harmonies record has the four fields, and a field is empty exactly
\* when its key is absent from settings.harmonyTypes, on both paths.
C4_HarmonyFieldsFollowRequest ==
  (hasPalette /\ finalSettings # Undefined) =>
    /\ DOMAIN palette.harmonies = HarmonyKeys
    /\ \A key \in HarmonyKeys :
         (palette.harmonies[key] = <<>>) <=> (key \notin finalSettings.harmonyTypes)

validChannel(v) == v \in 0..255

invalidColor(color) ==
  color = Undefined \/ ~(validChannel(color.r) /\ validChannel(color.g) /\ validChannel(color.b))

invalidSelectedColors(selectedColors) ==
  \/ invalidColor(selectedColors.primary)
  \/ invalidColor(selectedColors.secondary)
  \/ invalidColor(selectedColors.tertiary)

\* C5: a request with invalid selectedColors (a channel out of range or a
\* missing color) ends with the palette of the fallback colors and a
\* 'palette-generated' message, and never with an 'error' message.
C5_InvalidColorsAreRecovered ==
  (pc = "done" /\ msg # Undefined /\ accepted(msg) /\ invalidSelectedColors(msg.selectedColors)) =>
    /\ hasPalette
    /\ family(palette) = fallbackColors
    /\ \E i \in 1..Len(ui) : ui[i].type = "palette-generated"
    /\ \A i \in 1..Len(ui) : ui[i].type # "error"

inUnit(v) == RGe(v, Zero) /\ RLe(v, One)
colorInUnit(color) == inUnit(color.r) /\ inUnit(color.g) /\ inUnit(color.b)
allInUnit(colors) == \A i \in 1..Len(colors) : colorInUnit(colors[i])

\* C6: every channel of every RGB value stored in a PaletteData is in [0,1],
\* whatever the input.
C6_ChannelsInUnitInterval ==
  hasPalette =>
    /\ allInUnit(family(palette))
    /\ \A i \in 1..Len(palette.scales) : \A k \in DOMAIN palette.scales[i] : colorInUnit(palette.scales[i][k])
    /\ \A key \in HarmonyKeys : allInUnit(palette.harmonies[key])
    /\ allInUnit(palette.lightMode) /\ allInUnit(palette.darkMode)
    /\ allInUnit(palette.accessibleLight) /\ allInUnit(palette.accessibleDark)
    /\ allInUnit(palette.monotoneScale)

\* C7: on the sampled path an empty pixel list ends with a palette of the
\* fallback family.
C7_EmptyPixelsGiveFallbackFamily ==
  (path = "sampled" /\ extractWeightedPixels(images) = <<>>) =>
    /\ hasPalette
    /\ family(palette) = fallbackColors

\* C8: with settings.accessibility false, accessibleLight is lightMode and
\* accessibleDark is darkMode, on both paths.
C8_AccessibilityOffIsVerbatim ==
  (hasPalette /\ finalSettings # Undefined /\ ~finalSettings.accessibility) =>
    /\ palette.accessibleLight = palette.lightMode
    /\ palette.accessibleDark = palette.darkMode

called == ret # NoArg

\* C9: for every input color and every scaleSteps value the scale built for
\* the color maps label "500" to the input color itself.
C9_Step500IsTheInputColor ==
  called =>
    \A i \in 1..Len(arg.colors) :
      /\ i \in DOMAIN ret.scales
      /\ "500" \in DOMAIN ret.scales[i]
      /\ ret.scales[i]["500"] = arg.colors[i]

\* a scale was built for a color outside [0,1] with an unsupported step count
C9_Witness ==
  /\ called
  /\ arg.scaleSteps \notin {5, 9, 13}
  /\ \E i \in 1..Len(arg.colors) : ~colorInUnit(arg.colors[i]) /\ ret.scales[i]["500"] = arg.colors[i]

FiveLabels == { "100", "300", "500", "700", "900" }
NineLabels == { "100", "200", "300", "400", "500", "600", "700", "800", "900" }
ThirteenLabels == NineLabels \cup { "000", "050", "950", "999" }

\* C10: generateColorScales returns one scale per input color, in input
\* order, with the label set of the step count: five labels for 5, nine for
\* 9, the nine plus 000, 050, 950, 999 for 13.
C10_OneScalePerColorWithLabels ==
  called =>
    /\ Len(ret.scales) = Len(arg.colors)
    /\ \A i \in 1..Len(arg.colors) :
         /\ ret.scales[i]["500"] = arg.colors[i]
         /\ (arg.scaleSteps = 5 => DOMAIN ret.scales[i] = FiveLabels)
         /\ (arg.scaleSteps = 9 => DOMAIN ret.scales[i] = NineLabels)
         /\ (arg.scaleSteps = 13 => DOMAIN ret.scales[i] = ThirteenLabels)

\* thirteen-step scales were built for two different colors
C10_Witness ==
  /\ called
  /\ arg.scaleSteps = 13
  /\ Len(arg.colors) = 2
  /\ arg.colors[1] # arg.colors[2]
  /\ DOMAIN ret.scales[2] = ThirteenLabels

\* C11: for a scaleSteps value outside {5, 9, 13} generateColorScales returns,
\* for every input color, the scale it returns for scaleSteps = 9: the nine
\* labels with the same colors.
C11_UnsupportedStepsGiveNineSteps ==
  (called /\ arg.scaleSteps \notin {5, 9, 13}) =>
    /\ ret.scales = generateColorScales(arg.colors, 9)
    /\ \A i \in 1..Len(arg.colors) : DOMAIN ret.scales[i] = NineLabels

\* scales were built for two colors with the unsupported step count 7
C11_Witness ==
  /\ called
  /\ arg.scaleSteps = 7
  /\ Len(arg.colors) = 2
  /\ DOMAIN ret.scales[2] = NineLabels
  /\ ret.scales[2]["200"] = lightenColor(arg.colors[2], Q(6, 10))

\* a color of the request with every channel divided by 255
over255(color) == RGB(Q(color.r, 255), Q(color.g, 255), Q(color.b, 255))

over255Colors(selectedColors) ==
  [primary |-> over255(selectedColors.primary), secondary |-> over255(selectedColors.secondary),
   tertiary |-> over255(selectedColors.tertiary)]

\* C12: on the explicit path primary, secondary and tertiary are the three
\* selected colors with every channel divided by 255, with no floor or clamp,
\* and scales[1..3] are the scales of primary, secondary, tertiary in order.
C12_SelectedColorsUsedAsIs ==
  (path = "explicit") =>
    /\ palette.primary = over255(msg.selectedColors.primary)
    /\ palette.secondary = over255(msg.selectedColors.secondary)
    /\ palette.tertiary = over255(msg.selectedColors.tertiary)
    /\ Len(palette.scales) = 3
    /\ \A k \in 1..3 : palette.scales[k] = colorScale(family(palette)[k], finalSettings.scaleSteps)

\* a palette was built from a gray primary (saturation 0, below every floor)
C12_Witness ==
  /\ path = "explicit"
  /\ msg.selectedColors.primary = C255(128, 128, 128)
  /\ palette.primary = RGB(Q(128, 255), Q(128, 255), Q(128, 255))
  /\ palette.scales[2]["500"] = palette.secondary

calledFn(fn) == ret # NoArg /\ ret.fn = fn

\* C13: for every seed with channels in [0,1] the three colors
\* buildColorFamilyFromPrimary returns have lightness in [0.48, 0.60] and
\* saturation at least 0.80, the first one saturation at least 0.85.
C13_FamilyCohesion ==
  calledFn("buildColorFamilyFromPrimary") =>
    /\ Len(ret.family) = 3
    /\ \A k \in 1..3 :
         /\ RGe(hslOf(ret.family[k]).l, Q(48, 100))
         /\ RLe(hslOf(ret.family[k]).l, Q(60, 100))
         /\ RGe(hslOf(ret.family[k]).s, Q(80, 100))
    /\ RGe(hslOf(ret.family[1]).s, Q(85, 100))

\* a family was built from a dark seed of saturation below 0.8
C13_Witness ==
  /\ calledFn("buildColorFamilyFromPrimary")
  /\ RLt(hslOf(arg.color).l, Q(48, 100))
  /\ RLt(hslOf(arg.color).s, Q(80, 100))
  /\ hslOf(arg.color).s # Zero
  /\ hslOf(ret.family[1]).l = Q(48, 100)
  /\ hslOf(ret.family[1]).s = Q(85, 100)

\* (h + deg) mod 360 for h in [0, 360)
hueMod(h, deg) == RMod(RAdd(h, N(deg)), N(360))

C15_RoundTrip ==
  calledFn("rgbToHsl") =>
    /\ ret.rgb = arg.color
    /\ ((arg.color.r = arg.color.g /\ arg.color.g = arg.color.b) => ret.hsl.h = Zero /\ ret.hsl.s = Zero)
    /\ RGe(ret.hsl.h, Zero) /\ RLt(ret.hsl.h, N(360))

\* a color with red the largest channel and g < b went through the round trip
C15_Witness ==
  /\ calledFn("rgbToHsl")
  /\ RGt(arg.color.r, arg.color.b) /\ RGt(arg.color.b, arg.color.g)
  /\ RGe(ret.hsl.h, N(300))
  /\ ret.rgb = arg.color

minOf(a, b) == IF a < b THEN a ELSE b

ownSettings(m) == IF m.type = "generate-palette" THEN m.settings ELSE defaultSettings
ownPalette(m) == generateColorPaletteFromSelectedColors(over255Colors(m.selectedColors), ownSettings(m))

\* ownPalette of every request that carries its three colors
ownPalettes ==
  [m \in { r \in RequestChoices : accepted(r) /\ ~conversionThrows(r.selectedColors) } |-> ownPalette(m)]

\* the request holds the palette pal and the settings, and the frames it
\* has created are created from them
rendersFrom(request, pal, settings) ==
  /\ request.settings = settings
  /\ request.palette = pal
  /\ (request.frame.mainFrame => request.frame.scaleFrames \in { <<>>, createColorScales(pal) })
  /\ request.frame.harmonyFrames \in { <<>>, createHarmonyPalettes(pal, settings) }
  /\ request.frame.lightSwatches \in { <<>>, lightColors(pal, settings) }
  /\ request.frame.darkSwatches \in { <<>>, darkColors(pal, settings) }
  /\ (request.frame.monotone =>
        /\ request.frame.scaleFrames = createColorScales(pal)
        /\ request.frame.harmonyFrames = createHarmonyPalettes(pal, settings)
        /\ request.frame.lightSwatches = lightColors(pal, settings)
        /\ request.frame.darkSwatches = darkColors(pal, settings))

\* C17: with several generate requests in flight, under every interleaving,
\* every request holds the palette built from its own selectedColors and
\* settings, and every frame it creates is created from that palette and
\* those settings.
C17_RequestsAreIsolated ==
  \A i \in 1..Len(requests) :
    (requests[i].palette # NoPalette) =>
      rendersFrom(requests[i], ownPalettes[requests[i].msg], ownSettings(requests[i].msg))

\* the first request created its mode swatches while a second request with
\* other colors and settings was suspended after creating its harmony frames
C17_Witness ==
  /\ Len(requests) = 2
  /\ requests[1].palette # NoPalette /\ requests[2].palette # NoPalette
  /\ requests[1].msg # requests[2].msg
  /\ requests[1].at = "monotone" /\ requests[1].inFlight = 2
  /\ requests[2].at = "modes"
  /\ requests[1].frame.lightSwatches # <<>>
  /\ requests[1].frame.lightSwatches = requests[1].palette.lightMode

\* the number of valid image rectangles among the first ten selected nodes
validAmongFirstTen ==
  Cardinality({ k \in 1..minOf(10, Len(arg.selection)) :
                  arg.selection[k].fills = << "IMAGE" >> /\ arg.selection[k].imageLoads })

\* C18: an 'extract-image-colors' request reports in 'multi-image-selected'
\* as imageCount the number of valid image rectangles among the first 10
\* selected nodes (at most 10) and as totalSelected the size of the whole
\* selection; a selection of more than 10 nodes with a valid image among
\* the first 10 is reported like that, not rejected.
C18_AtMostTenImagesExamined ==
  calledFn("extractImageColors") =>
    /\ \A k \in 1..Len(ui) :
         ui[k].type = "multi-image-selected" =>
           /\ ui[k].imageCount = validAmongFirstTen
           /\ ui[k].imageCount <= 10
           /\ ui[k].totalSelected = Len(arg.selection)
    /\ (validAmongFirstTen >= 1 => Len(ui) >= 1 /\ ui[1].type = "multi-image-selected")

\* twelve image rectangles were selected: ten are counted, twelve reported
C18_Witness ==
  /\ calledFn("extractImageColors")
  /\ Len(arg.selection) = 12
  /\ \A k \in 1..12 : isValidImage(arg.selection[k])
  /\ ui[1] = [type |-> "multi-image-selected", imageCount |-> 10, totalSelected |-> 12]

\* the try block of generateColorPalette threw
pipelineThrew == path = "sampled" /\ finalSettings = Undefined

\* C19: when a step of generateColorPalette throws, the call resolves with
\* a complete PaletteData of the fallback colors {0.2,0.4,0.8},
\* {0.8,0.2,0.4}, {0.4,0.8,0.2}: three scales around them, the four
\* harmonies, 15-entry mode and accessible arrays and the monotone scale.
C19_ThrowGivesFallbackPalette ==
  pipelineThrew =>
    /\ palette # NoPalette
    /\ family(palette) = << [r |-> <<1, 5>>, g |-> <<2, 5>>, b |-> <<4, 5>>],
                            [r |-> <<4, 5>>, g |-> <<1, 5>>, b |-> <<2, 5>>],
                            [r |-> <<2, 5>>, g |-> <<4, 5>>, b |-> <<1, 5>>] >>
    /\ Len(palette.scales) = 3
    /\ \A k \in 1..3 : palette.scales[k]["500"] = family(palette)[k]
                         /\ Cardinality(DOMAIN palette.scales[k]) = 9
    /\ DOMAIN palette.harmonies = HarmonyKeys
    /\ \A key \in HarmonyKeys : Len(palette.harmonies[key]) >= 1
    /\ Len(palette.lightMode) = 15 /\ Len(palette.darkMode) = 15
    /\ Len(palette.accessibleLight) = 15 /\ Len(palette.accessibleDark) = 15
    /\ Len(palette.monotoneScale) = 6

\* the call threw at settings.scaleSteps, after pixels of a usable image
\* had been extracted, and returned the fallback palette
C19_Witness ==
  /\ pipelineThrew
  /\ extractWeightedPixels(images) # <<>>
  /\ pc = "done"
  /\ palette.primary = fallbackColors[1]

\* createPaletteFrames created every output frame
allFramesCreated == canvas.mainFrame /\ canvas.monotone

\* C20: 'palette-generated' and the success notification are sent only if
\* createPaletteFrames created all output frames without error; a generate
\* request whose font loading or frame creation failed ends with an
\* 'error' message and without 'palette-generated'.
C20_GeneratedOnlyAfterAllFrames ==
  /\ (\E k \in 1..Len(ui) : ui[k].type = "palette-generated") => allFramesCreated
  /\ (\E k \in 1..Len(notified) : ~notified[k]) => allFramesCreated
  /\ (pc = "done" /\ path = "explicit" /\ ~allFramesCreated) =>
        /\ \E k \in 1..Len(ui) : ui[k].type = "error"
        /\ \A k \in 1..Len(ui) : ui[k].type # "palette-generated"

\* the 'palette-generated' and 'error' messages posted so far
terminalMessages == { k \in 1..Len(ui) : ui[k].type \in { "palette-generated", "error" } }

\* the message lacks what its type requires
lacksRequired(m) ==
  \/ m.type = "generate-palette" /\ (m.selectedColors = Undefined \/ m.settings = Undefined)
  \/ m.type = "generate-palette-from-selected" /\ m.selectedColors = Undefined

C21_OneTerminalMessage ==
  /\ Cardinality(terminalMessages) <= 1
  /\ (msg # Undefined /\ pc = "done") => Cardinality(terminalMessages) = 1
  /\ (msg # Undefined /\ lacksRequired(msg)) =>
        /\ Len(ui) = 1 /\ ui[1].type = "error"
        /\ palette = NoPalette
        /\ canvas = emptyCanvas

\* C21: every generate message is answered by exactly one terminal message,
\* 'palette-generated' or 'error', never both and never none; a message
\* lacking selectedColors (or, for 'generate-palette', settings) gets
\* 'error', no palette is computed and no frame is created.
C21_EveryRequestAnsweredOnce ==
  /\ []C21_OneTerminalMessage
  /\ (msg # Undefined) ~> (pc = "done" /\ Cardinality(terminalMessages) = 1)

\* a 'generate-palette' message without settings was answered with 'error'
C21_Witness ==
  /\ msg # Undefined
  /\ msg.type = "generate-palette" /\ msg.selectedColors # Undefined /\ msg.settings = Undefined
  /\ pc = "done"
  /\ ui = << [type |-> "error", message |-> "Selected colors are required"] >>

\* the positions of the valid image rectangles among the first ten nodes
validPositions ==
  { k \in 1..minOf(10, Len(arg.selection)) :
      arg.selection[k].fills = << "IMAGE" >> /\ arg.selection[k].imageLoads }

\* C22: an 'extract-image-colors' request with an empty selection or with
\* no valid image rectangle among the first 10 nodes posts exactly one
\* 'error' and neither 'multi-image-selected' nor 'image-bytes-received';
\* otherwise 'multi-image-selected' comes before 'image-bytes-received',
\* which carries the bytes and the hash of the first valid image.
C22_ExtractMessagesInOrder ==
  calledFn("extractImageColors") =>
    IF validPositions = {}
    THEN Len(ui) = 1 /\ ui[1].type = "error"
    ELSE /\ ui[1].type = "multi-image-selected"
         /\ \A k \in 1..Len(ui) :
              ui[k].type = "image-bytes-received" =>
                /\ k > 1
                /\ \A j \in validPositions : ui[k].imageHash <= arg.selection[j].imageHash
                /\ ui[k].imageHash \in { arg.selection[j].imageHash : j \in validPositions }
                /\ ui[k].imageBytes = << "bytes", ui[k].imageHash >>

\* the first node is no image, the second and third are: the bytes sent
\* are those of the second node
C22_Witness ==
  /\ calledFn("extractImageColors")
  /\ Len(arg.selection) = 3
  /\ validPositions = { 2, 3 }
  /\ Len(ui) = 2
  /\ ui[1].type = "multi-image-selected"
  /\ ui[2].type = "image-bytes-received" /\ ui[2].imageHash = 2

\* the score and the hue (in degrees) of the color at index i of the argument
scoreAt(i) == totalScoreFromHsl(hslOf(arg.colors[i]))
hueAt(i) == hslOf(arg.colors[i]).h

\* the color at index i is considered before the one at index j
consideredBefore(i, j) == RGt(scoreAt(i), scoreAt(j)) \/ (scoreAt(i) = scoreAt(j) /\ i < j)

\* the colors accepted in the greedy pass before the one at index i is considered
acceptedBefore(i) == { j \in { ret.greedy[k] : k \in 1..Len(ret.greedy) } : consideredBefore(j, i) }

\* the circular hue distance of two colors is at least 0.7 x (360 / K)
farApart(i, j) ==
  LET d == RAbs(RSub(hueAt(i), hueAt(j)))
  IN  RGe(IF RLt(d, RSub(N(360), d)) THEN d ELSE RSub(N(360), d), Q(7 * 360, 10 * arg.count))

\* C23: selectBestPrimaryCandidates considers the colors in descending
\* score order and its greedy pass accepts a color exactly when fewer than
\* 2 are accepted so far or its circular hue distance to every accepted
\* hue is at least 0.7 x (360/K), as long as fewer than K are accepted; so
\* every color accepted after the second is that far from all before it.
C23_GreedyPassKeepsHueDistance ==
  calledFn("selectBestPrimaryCandidates") =>
    /\ \A k, l \in 1..Len(ret.greedy) : k < l => consideredBefore(ret.greedy[k], ret.greedy[l])
    /\ \A i \in 1..Len(arg.colors) :
         (i \in { ret.greedy[k] : k \in 1..Len(ret.greedy) })
           <=> /\ Cardinality(acceptedBefore(i)) < arg.count
               /\ \/ Cardinality(acceptedBefore(i)) < 2
                  \/ \A j \in acceptedBefore(i) : farApart(i, j)
    /\ \A k \in 3..Len(ret.greedy) : \A l \in 1..(k - 1) : farApart(ret.greedy[k], ret.greedy[l])

\* two reds are taken regardless, the orange 15 degrees away is passed
\* over, the blue is accepted as third
C23_Witness ==
  /\ calledFn("selectBestPrimaryCandidates")
  /\ arg.count = 3
  /\ arg.colors = << RGB(One, Zero, Zero), RGB(One, Zero, Zero), RGB(One, Q(1, 4), Zero), RGB(Q(1, 5), Q(2, 5), Q(4, 5)) >>
  /\ ret.greedy = << 1, 2, 4 >>

\* 3*s + 1.5*|l - 0.5| + (1 if s > 0.8 else 0) of the color at index i
vibrancyAt(i) ==
  LET hsl == hslOf(arg.colors[i])
      dl  == IF RLt(hsl.l, Q(1, 2)) THEN RSub(Q(1, 2), hsl.l) ELSE RSub(hsl.l, Q(1, 2))
  IN  RAdd(RAdd(RMul(N(3), hsl.s), RMul(Q(3, 2), dl)), IF RGt(hsl.s, Q(4, 5)) THEN One ELSE Zero)

\* C24: on a non-empty list selectBrightestColor returns boostColorVibrancy
\* of the earliest color of maximal score 3*s + 1.5*|l-0.5| + (1 if s > 0.8
\* else 0); on an empty list it returns mid-gray, not boosted.
C24_BrightestIsEarliestMaximum ==
  calledFn("selectBrightestColor") =>
    IF Len(arg.colors) = 0
    THEN ret.color = [r |-> <<1, 2>>, g |-> <<1, 2>>, b |-> <<1, 2>>]
    ELSE \E i \in 1..Len(arg.colors) :
           /\ \A j \in 1..Len(arg.colors) : RGe(vibrancyAt(i), vibrancyAt(j))
           /\ \A j \in 1..(i - 1) : RLt(vibrancyAt(j), vibrancyAt(i))
           /\ ret.color = boostColorVibrancy(arg.colors[i])

\* the orange and the red score the same; the orange comes first and wins
C24_Witness ==
  /\ calledFn("selectBrightestColor")
  /\ arg.colors = << RGB(Q(1, 5), Q(2, 5), Q(4, 5)), RGB(One, Q(1, 4), Zero), RGB(One, Zero, Zero) >>
  /\ ret.color = RGB(One, Q(1, 4), Zero)

\* the lightness boostColorVibrancy is to give a color of lightness l
pulledLightness(l) ==
  IF RLt(l, Q(3, 10)) THEN Q(2, 5) ELSE IF RGt(l, Q(7, 10)) THEN Q(3, 5) ELSE l

\* C25: boostColorVibrancy keeps the hue, sets the saturation to
\* min(1, 1.5*s) and the lightness to 0.4 when l < 0.3, to 0.6 when
\* l > 0.7 and leaves it otherwise; the lightness of the result lies in
\* [0.3, 0.7].
C25_BoostKeepsHue ==
  calledFn("boostColorVibrancy") =>
    /\ hslOf(ret.color).h = hslOf(arg.color).h
    /\ hslOf(ret.color).s = (IF RLt(RMul(Q(3, 2), hslOf(arg.color).s), One)
                             THEN RMul(Q(3, 2), hslOf(arg.color).s) ELSE One)
    /\ hslOf(ret.color).l = pulledLightness(hslOf(arg.color).l)
    /\ RGe(hslOf(ret.color).l, Q(3, 10)) /\ RLe(hslOf(ret.color).l, Q(7, 10))

\* a dark, weakly saturated color was boosted: lightness 0.4, saturation
\* multiplied by 1.5 and below 1
C25_Witness ==
  /\ calledFn("boostColorVibrancy")
  /\ RLt(hslOf(arg.color).l, Q(3, 10))
  /\ RGt(hslOf(arg.color).s, Zero) /\ RLt(hslOf(arg.color).s, Q(2, 3))
  /\ hslOf(ret.color).l = Q(2, 5)
  /\ hslOf(ret.color).h = hslOf(arg.color).h

\* the HSL triple of the first family color turned by deg degrees (deg < 360)
turnedHsl(deg) ==
  [h |-> IF RGe(RAdd(hslOf(ret.colors[1]).h, N(deg)), N(360))
         THEN RSub(RAdd(hslOf(ret.colors[1]).h, N(deg)), N(360))
         ELSE RAdd(hslOf(ret.colors[1]).h, N(deg)),
   s |-> hslOf(ret.colors[1]).s,
   l |-> hslOf(ret.colors[1]).l]

\* the colors of a harmony have, in order, the HSL of the first family
\* color turned by the given degrees
harmonyTurnedBy(harmony, degrees) ==
  /\ Len(harmony) = Len(degrees)
  /\ \A k \in 1..Len(degrees) : hslOf(harmony[k]) = turnedHsl(degrees[k])

\* C26: on the sampled path generateHarmonies derives every harmony from
\* the first family color (h,s,l) only, keeping s and l and wrapping hues
\* mod 360: analogous h+30, h+60, h+90; complementary h+180; triadic
\* h+120, h+240; splitComplementary h+150, h+210, in this order.
C26_SampledHarmonyHues ==
  calledFn("generateHarmonies") =>
    /\ DOMAIN ret.harmonies = { "analogous", "complementary", "triadic", "splitComplementary" }
    /\ harmonyTurnedBy(ret.harmonies.analogous, << 30, 60, 90 >>)
    /\ harmonyTurnedBy(ret.harmonies.complementary, << 180 >>)
    /\ harmonyTurnedBy(ret.harmonies.triadic, << 120, 240 >>)
    /\ harmonyTurnedBy(ret.harmonies.splitComplementary, << 150, 210 >>)

\* the first family color has a hue of 300 degrees, so every harmony hue
\* but the first analogous one wraps around
C26_Witness ==
  /\ calledFn("generateHarmonies")
  /\ hslOf(ret.colors[1]).h = N(300)
  /\ hslOf(ret.harmonies.analogous[3]).h = N(30)
  /\ hslOf(ret.harmonies.complementary[1]).h = N(120)

\* a channel moved towards white, c + (1 - c) * t, and towards black, c * (1 - t)
tintChannel(c, t) == RAdd(c, RMul(RSub(One, c), t))
shadeChannel(c, t) == RMul(c, RSub(One, t))
tint(color, t) == [r |-> tintChannel(color.r, t), g |-> tintChannel(color.g, t), b |-> tintChannel(color.b, t)]
shade(color, t) == [r |-> shadeChannel(color.r, t), g |-> shadeChannel(color.g, t), b |-> shadeChannel(color.b, t)]

\* the five entries of list that belong to the i-th color
variantsOf(list, i) == SubSeq(list, 5 * i - 4, 5 * i)

\* C27: generateModeSpecificPalettes emits for each family color, in input
\* order, the light variants lighten 0.9, 0.7, 0.5, 0.3, darken 0.1 and the
\* dark variants lighten 0.8, 0.6, the color itself, darken 0.3, darken
\* 0.6; for three colors the dark entries 2, 7 and 12 (counted from 0) are
\* the primary, secondary and tertiary.
C27_ModeVariantsInFixedOrder ==
  calledFn("generateModeSpecificPalettes") =>
    /\ Len(ret.light) = 5 * Len(ret.colors) /\ Len(ret.dark) = 5 * Len(ret.colors)
    /\ \A i \in 1..Len(ret.colors) :
         /\ variantsOf(ret.light, i) =
              << tint(ret.colors[i], Q(9, 10)), tint(ret.colors[i], Q(7, 10)), tint(ret.colors[i], Q(1, 2)),
                 tint(ret.colors[i], Q(3, 10)), shade(ret.colors[i], Q(1, 10)) >>
         /\ variantsOf(ret.dark, i) =
              << tint(ret.colors[i], Q(4, 5)), tint(ret.colors[i], Q(3, 5)), ret.colors[i],
                 shade(ret.colors[i], Q(3, 10)), shade(ret.colors[i], Q(3, 5)) >>
    /\ (Len(ret.colors) = 3 =>
          ret.dark[3] = ret.colors[1] /\ ret.dark[8] = ret.colors[2] /\ ret.dark[13] = ret.colors[3])

\* a family of three different colors gave 15 light and 15 dark entries
C27_Witness ==
  /\ calledFn("generateModeSpecificPalettes")
  /\ Len(ret.colors) = 3
  /\ ret.colors[1] # ret.colors[2] /\ ret.colors[2] # ret.colors[3]
  /\ Len(ret.light) = 15
  /\ ret.dark[8] = ret.colors[2]

\* C28: on the sampled path accessibleLight and accessibleDark each hold,
\* for each family color in order, the recipe lighten 0.95, 0.8, 0.6, 0.4,
\* darken 0.2 of that color, 15 entries each, a recipe distinct from the
\* light-mode and the dark-mode recipe.
C28_AccessibleRecipe ==
  calledFn("generateAccessiblePalettes") =>
    /\ Len(ret.light) = 15 /\ Len(ret.dark) = 15
    /\ \A i \in 1..Len(ret.colors) :
         /\ variantsOf(ret.light, i) =
              << tint(ret.colors[i], Q(19, 20)), tint(ret.colors[i], Q(4, 5)), tint(ret.colors[i], Q(3, 5)),
                 tint(ret.colors[i], Q(2, 5)), shade(ret.colors[i], Q(1, 5)) >>
         /\ variantsOf(ret.dark, i) =
              << tint(ret.colors[i], Q(19, 20)), tint(ret.colors[i], Q(4, 5)), tint(ret.colors[i], Q(3, 5)),
                 tint(ret.colors[i], Q(2, 5)), shade(ret.colors[i], Q(1, 5)) >>

\* the scale labels from the lightest to the darkest step
lightestToDarkest ==
  << "000", "050", "100", "200", "300", "400", "500", "600", "700", "800", "900", "950", "999" >>

\* no channel of the darker color is above that of the lighter one
notLighter(darker, lighter) ==
  RLe(darker.r, lighter.r) /\ RLe(darker.g, lighter.g) /\ RLe(darker.b, lighter.b)

nearCenter(hue, center) ==
  \/ RLe(RAbs(RSub(hue, N(center))), N(20))
  \/ RGe(RAbs(RSub(hue, N(center))), N(340))

\* C30: every pixel extractPixelsFromImage generates has the hue computed
\* for its sample, a hue within 20 degrees of the center of one of the
\* families hueBase, hueBase+120, hueBase+240, hueBase+60 (mod 360), with
\* saturation in [0.3, 0.95] and lightness in [0.2, 0.8].
C30_PixelsHaveTheirComputedHue ==
  calledFn("extractPixelsFromImage") =>
    \A k \in 1..Len(ret.pixels) :
      /\ hslOf(ret.pixels[k]).h = ret.hues[k]
      /\ \E turn \in { 0, 120, 240, 60 } : nearCenter(hslOf(ret.pixels[k]).h, ((arg.hashSum % 360) + turn) % 360)
      /\ RGe(hslOf(ret.pixels[k]).s, Q(3, 10)) /\ RLe(hslOf(ret.pixels[k]).s, Q(95, 100))
      /\ RGe(hslOf(ret.pixels[k]).l, Q(1, 5)) /\ RLe(hslOf(ret.pixels[k]).l, Q(4, 5))

====
